---- MODULE Spec2Model ----
(***************************************************************************)
(* Model of js/template.js: the function menu(index, relativePath), which  *)
(* writes a navigation list of eight fixed entries with document.write     *)
(* and marks the entry whose position compares equal (==) to index.        *)
(*                                                                         *)
(* JavaScript values are records of one shape                              *)
(*   [t: typeof tag, n/d: a rational number (d = 0 is NaN),                *)
(*    s: the characters of a string, b: a boolean]                         *)
(* so that the conversions the code relies on (ToNumber inside ==,         *)
(* ToString inside +) are computed, not assumed.                           *)
(***************************************************************************)
EXTENDS Integers, Sequences, FiniteSets

VARIABLES
    pc,            \* position inside menu: "idle" (never called), "L7", "L9init",
                   \* "L9test", "L10", "L9inc", "L18", "returned"
    args,          \* the two actual arguments of the current / last call
    index,         \* parameter index
    relativePath,  \* parameter relativePath (reassigned on line 3)
    pages,         \* local var pages
    titles,        \* local var titles
    i,             \* local var i, the loop counter
    out,           \* the fragments passed to document.write by the current / last call
    prev,          \* observer: <<>> or <<r>>, r one remembered completed call
    between        \* observer: TRUE iff a call with other arguments than prev's
                   \* completed after prev was remembered

vars == <<pc, args, index, relativePath, pages, titles, i, out, prev, between>>

-----------------------------------------------------------------------------
(* Bounds of the model *)

\* integer indices passed to menu range over -1..MaxInt
MaxInt == 8

-----------------------------------------------------------------------------
(* JavaScript values *)

JSUndefined == [t |-> "undefined", n |-> 0, d |-> 1, s |-> <<>>, b |-> FALSE]
JSNull      == [t |-> "null",      n |-> 0, d |-> 1, s |-> <<>>, b |-> FALSE]
JSBool(x)   == [t |-> "boolean",   n |-> 0, d |-> 1, s |-> <<>>, b |-> x]
JSNum(a, q) == [t |-> "number",    n |-> a, d |-> q, s |-> <<>>, b |-> FALSE]
JSStr(cs)   == [t |-> "string",    n |-> 0, d |-> 1, s |-> cs,   b |-> FALSE]
JSNaN       == JSNum(0, 0)

Digits == <<"0", "1", "2", "3", "4", "5", "6", "7", "8", "9">>
IsDigit(c) == \E k \in 1..10 : Digits[k] = c
DigitVal(c) == (CHOOSE k \in 1..10 : Digits[k] = c) - 1
IsSpace(c) == c \in {" ", "\t", "\n", "\r"}

RECURSIVE Pow10(_)
Pow10(k) == IF k = 0 THEN 1 ELSE 10 * Pow10(k - 1)

RECURSIVE DigitsValue(_)
DigitsValue(cs) ==
    IF cs = <<>> THEN 0
    ELSE 10 * DigitsValue(SubSeq(cs, 1, Len(cs) - 1)) + DigitVal(cs[Len(cs)])

AllDigits(cs) == \A k \in 1..Len(cs) : IsDigit(cs[k])

RECURSIVE TrimLeft(_)
TrimLeft(cs) ==
    IF cs # <<>> /\ IsSpace(Head(cs)) THEN TrimLeft(Tail(cs)) ELSE cs

RECURSIVE TrimRight(_)
TrimRight(cs) ==
    IF cs # <<>> /\ IsSpace(cs[Len(cs)])
    THEN TrimRight(SubSeq(cs, 1, Len(cs) - 1)) ELSE cs

\* an unsigned decimal literal: digits, optionally "." and more digits
UnsignedToNumber(cs) ==
    LET dots == {k \in 1..Len(cs) : cs[k] = "."} IN
    IF dots = {}
    THEN IF cs # <<>> /\ AllDigits(cs) THEN JSNum(DigitsValue(cs), 1) ELSE JSNaN
    ELSE LET p    == CHOOSE k \in dots : \A m \in dots : k <= m
             ip   == SubSeq(cs, 1, p - 1)
             fp   == SubSeq(cs, p + 1, Len(cs))
         IN IF AllDigits(ip) /\ AllDigits(fp) /\ Len(ip) + Len(fp) > 0
            THEN JSNum(DigitsValue(ip \o fp), Pow10(Len(fp)))
            ELSE JSNaN

\* ToNumber applied to a string (StringToNumber): white space is trimmed, the
\* empty string is 0, a signed decimal literal is its value, anything else NaN.
\* (Hex/octal/binary literals, exponents and "Infinity" are not passed here.)
StringToNumber(cs) ==
    LET body == TrimRight(TrimLeft(cs)) IN
    IF body = <<>> THEN JSNum(0, 1)
    ELSE IF Head(body) = "-"
         THEN LET u == UnsignedToNumber(Tail(body)) IN JSNum(0 - u.n, u.d)
         ELSE IF Head(body) = "+" THEN UnsignedToNumber(Tail(body))
              ELSE UnsignedToNumber(body)

ToNumber(v) ==
    CASE v.t = "undefined" -> JSNaN
      [] v.t = "null"      -> JSNum(0, 1)
      [] v.t = "boolean"   -> IF v.b THEN JSNum(1, 1) ELSE JSNum(0, 1)
      [] v.t = "number"    -> v
      [] v.t = "string"    -> StringToNumber(v.s)

\* Number::equal: NaN equals nothing
NumberEqual(x, y) == x.d # 0 /\ y.d # 0 /\ x.n * y.d = y.n * x.d

\* x === y
IsStrictlyEqual(x, y) ==
    /\ x.t = y.t
    /\ CASE x.t = "number"  -> NumberEqual(x, y)
         [] x.t = "string"  -> x.s = y.s
         [] x.t = "boolean" -> x.b = y.b
         [] OTHER           -> TRUE

\* the comparison written with === instead of ==
IsLooselyEqualStrict(x, y) == IsStrictlyEqual(x, y)

\* a comparison that is off by one position
IsLooselyEqualNext(x, y) ==
    x.t = "number" /\ NumberEqual(x, JSNum(y.n + y.d, y.d))

\* a comparison that truncates a number to an integer and clamps it to the table
IsLooselyEqualClamped(x, y) ==
    /\ x.t = "number" /\ x.d > 0
    /\ LET f == x.n \div x.d
           c == IF f < 0 THEN 0 ELSE IF f > 7 THEN 7 ELSE f
       IN NumberEqual(JSNum(c, 1), y)

\* x == y (IsLooselyEqual) for a right operand of type number, as on line 10
IsLooselyEqual(x, y) ==
    CASE x.t = y.t                      -> IsStrictlyEqual(x, y)
      [] x.t \in {"undefined", "null"}  -> FALSE
      [] x.t \in {"string", "boolean"}  -> NumberEqual(ToNumber(x), y)

RECURSIVE NatToString(_)
NatToString(k) ==
    IF k < 10 THEN Digits[k + 1]
    ELSE NatToString(k \div 10) \o Digits[(k % 10) + 1]

RECURSIVE FractionDigits(_, _)
FractionDigits(r, q) ==
    IF r = 0 THEN ""
    ELSE Digits[((r * 10) \div q) + 1] \o FractionDigits((r * 10) % q, q)

\* Number::toString for NaN, integers and terminating decimals
NumberToString(v) ==
    IF v.d = 0 THEN "NaN"
    ELSE LET neg == (v.n < 0) # (v.d < 0)
             a   == IF v.n < 0 THEN 0 - v.n ELSE v.n
             q   == IF v.d < 0 THEN 0 - v.d ELSE v.d
             str == NatToString(a \div q) \o
                    (IF a % q = 0 THEN "" ELSE "." \o FractionDigits(a % q, q))
         IN IF neg /\ a # 0 THEN "-" \o str ELSE str

RECURSIVE Join(_)
Join(cs) == IF cs = <<>> THEN "" ELSE Head(cs) \o Join(Tail(cs))

\* ToString, as applied by string concatenation with +
ToString(v) ==
    CASE v.t = "undefined" -> "undefined"
      [] v.t = "null"      -> "null"
      [] v.t = "boolean"   -> IF v.b THEN "true" ELSE "false"
      [] v.t = "number"    -> NumberToString(v)
      [] v.t = "string"    -> Join(v.s)

-----------------------------------------------------------------------------
(* The code of menu *)

\* line 3 without the default: the argument is used as it came
DefaultPathNone(rp) == rp

\* line 3 reading a value left by an earlier call instead of ''
DefaultPathStale(rp) == IF rp.t # "undefined" THEN rp ELSE relativePath

\* line 3: typeof relativePath !== 'undefined' ? relativePath : ''
DefaultPath(rp) == IF rp.t # "undefined" THEN rp ELSE JSStr(<<>>)

\* line 4
PagesLiteral ==
    <<"index.html", "publications.html", "bibbase.html", "students.html",
      "projects.html", "teaching.html", "service.html", "awards.html">>

\* line 5
TitlesLiteral ==
    <<"Home", "Publications", "BibBase", "Students",
      "Projects", "Teaching", "Service", "Awards">>

Fragment(kind, liActive, aActive, href, text) ==
    [kind |-> kind, liActive |-> liActive, aActive |-> aActive,
     href |-> href, text |-> text]

\* line 7 and line 18
OpenList  == Fragment("ul", FALSE, FALSE, "", "")
CloseList == Fragment("/ul", FALSE, FALSE, "", "")

\* the item taken from the mirrored table position
ItemMirrored(idx, rp, pgs, tts, k) ==
    LET m == Len(pgs) - k IN
    IF IsLooselyEqual(idx, JSNum(k, 1))
    THEN Fragment("li", TRUE, TRUE, ToString(rp) \o pgs[m], tts[m])
    ELSE Fragment("li", FALSE, FALSE, ToString(rp) \o pgs[m], tts[m])

\* the active item without the class on its link
ItemLinkPlain(idx, rp, pgs, tts, k) ==
    IF IsLooselyEqual(idx, JSNum(k, 1))
    THEN Fragment("li", TRUE, FALSE, ToString(rp) \o pgs[k + 1], tts[k + 1])
    ELSE Fragment("li", FALSE, FALSE, ToString(rp) \o pgs[k + 1], tts[k + 1])

\* lines 10-15: the fragment written for position k (arrays are 0-based in
\* the code, sequences 1-based here)
Item(idx, rp, pgs, tts, k) ==
    IF IsLooselyEqual(idx, JSNum(k, 1))
    THEN Fragment("li", TRUE, TRUE, ToString(rp) \o pgs[k + 1], tts[k + 1])
    ELSE Fragment("li", FALSE, FALSE, ToString(rp) \o pgs[k + 1], tts[k + 1])

\* the values a caller passes as index
IndexValues ==
    {JSNum(k, 1) : k \in -1..MaxInt}
    \cup {JSNum(99, 1), JSNum(7, 2), JSNaN, JSUndefined, JSNull,
          JSBool(TRUE), JSBool(FALSE),
          JSStr(<<"3">>), JSStr(<<>>), JSStr(<<"a", "b", "c">>),
          JSStr(<<" ", "7", " ">>)}

\* the values a caller passes as relativePath (JSUndefined: omitted)
PathValues ==
    {JSUndefined, JSStr(<<>>), JSStr(<<"/", "d", "o", "c", "s", "/">>),
     JSNull, JSNum(5, 1)}

Init ==
    /\ pc = "idle"
    /\ args = [index |-> JSUndefined, relativePath |-> JSUndefined]
    /\ index = JSUndefined
    /\ relativePath = JSUndefined
    /\ pages = <<>>
    /\ titles = <<>>
    /\ i = 0
    /\ out = <<>>
    /\ prev = <<>>
    /\ between = FALSE

\* lines 2-5: the call binds the parameters, defaults relativePath and builds
\* the two tables. i is hoisted but unassigned until line 9; nothing reads it
\* before then.
Call(idx, rp) ==
    /\ pc \in {"idle", "returned"}
    /\ args' = [index |-> idx, relativePath |-> rp]
    /\ index' = idx
    /\ relativePath' = DefaultPath(rp)
    /\ pages' = PagesLiteral
    /\ titles' = TitlesLiteral
    /\ out' = <<>>
    /\ pc' = "L7"
    /\ UNCHANGED <<i, prev, between>>

\* line 7
WriteOpen ==
    /\ pc = "L7"
    /\ out' = Append(out, OpenList)
    /\ pc' = "L9init"
    /\ UNCHANGED <<args, index, relativePath, pages, titles, i, prev, between>>

\* line 9: var i=0
LoopInit ==
    /\ pc = "L9init"
    /\ i' = 0
    /\ pc' = "L9test"
    /\ UNCHANGED <<args, index, relativePath, pages, titles, out, prev, between>>

\* line 9: i<pages.length
LoopTest ==
    /\ pc = "L9test"
    /\ pc' = IF i < Len(pages) THEN "L10" ELSE "L18"
    /\ UNCHANGED <<args, index, relativePath, pages, titles, i, out, prev, between>>

\* a body that prefixes the table entry in place before writing it
LoopBodyInPlace ==
    /\ pc = "L10"
    /\ pages' = [pages EXCEPT ![i + 1] = ToString(relativePath) \o pages[i + 1]]
    /\ out' = Append(out, Item(index, JSStr(<<>>), pages', titles, i))
    /\ pc' = "L9inc"
    /\ UNCHANGED <<args, index, relativePath, titles, i, prev, between>>

\* lines 10-15
LoopBody ==
    /\ pc = "L10"
    /\ out' = Append(out, Item(index, relativePath, pages, titles, i))
    /\ pc' = "L9inc"
    /\ UNCHANGED <<args, index, relativePath, pages, titles, i, prev, between>>

\* an increment that makes no progress
LoopIncStuck ==
    /\ pc = "L9inc"
    /\ i' = i
    /\ pc' = "L9test"
    /\ UNCHANGED <<args, index, relativePath, pages, titles, out, prev, between>>

\* line 9: i++
LoopInc ==
    /\ pc = "L9inc"
    /\ i' = i + 1
    /\ pc' = "L9test"
    /\ UNCHANGED <<args, index, relativePath, pages, titles, out, prev, between>>

\* observer: the remembered call r had the arguments a
SameArgs(r, a) == r.index = a.index /\ r.relativePath = a.relativePath

\* the closing fragment left out
WriteCloseMissing(keep) ==
    /\ pc = "L18"
    /\ pc' = "returned"
    /\ UNCHANGED <<args, index, relativePath, pages, titles, i, out, prev, between>>

\* lines 18-19: the closing fragment is written and the call returns. The
\* observer either remembers this call (keep) or notes whether a call with
\* other arguments than the remembered one's has completed since.
WriteClose(keep) ==
    /\ pc = "L18"
    /\ out' = Append(out, CloseList)
    /\ pc' = "returned"
    /\ IF keep
       THEN /\ prev' = <<[index |-> args.index,
                          relativePath |-> args.relativePath, out |-> out']>>
            /\ between' = FALSE
       ELSE /\ prev' = prev
            /\ between' = (between \/ (prev # <<>> /\ ~SameArgs(prev[1], args)))
    /\ UNCHANGED <<args, index, relativePath, pages, titles, i>>

Next ==
    \/ \E idx \in IndexValues, rp \in PathValues : Call(idx, rp)
    \/ WriteOpen
    \/ LoopInit
    \/ LoopTest
    \/ LoopBody
    \/ LoopInc
    \/ \E keep \in BOOLEAN : WriteClose(keep)

Spec == Init /\ [][Next]_vars

\* the steps of a call that has started: the code is synchronous and runs
\* to completion, so a started call always takes its next step
Step ==
    \/ WriteOpen
    \/ LoopInit
    \/ LoopTest
    \/ LoopBody
    \/ LoopInc
    \/ WriteClose(FALSE)

FairNext ==
    \/ \E idx \in IndexValues, rp \in PathValues : Call(idx, rp)
    \/ Step

FairSpec == Init /\ [][FairNext]_vars /\ WF_vars(Step)

-----------------------------------------------------------------------------
(* What the claims are stated against: the table of the specification and  *)
(* the prefix each relativePath argument stands for, written out literally *)

MenuTable ==
    <<[page |-> "index.html",        title |-> "Home"],
      [page |-> "publications.html", title |-> "Publications"],
      [page |-> "bibbase.html",      title |-> "BibBase"],
      [page |-> "students.html",     title |-> "Students"],
      [page |-> "projects.html",     title |-> "Projects"],
      [page |-> "teaching.html",     title |-> "Teaching"],
      [page |-> "service.html",      title |-> "Service"],
      [page |-> "awards.html",       title |-> "Awards"]>>

Positions == 0..7

ExpectedPrefix(rp) ==
    CASE rp = JSUndefined -> ""
      [] rp = JSStr(<<>>) -> ""
      [] rp = JSStr(<<"/", "d", "o", "c", "s", "/">>) -> "/docs/"
      [] rp = JSNull -> "null"
      [] rp = JSNum(5, 1) -> "5"

KnownPrefixes == {"", "/docs/", "null", "5", "undefined"}

InCall == pc \notin {"idle", "returned"}
Returned == pc = "returned"

\* the list items written so far, in the order written
ItemsOf(o) == SelectSeq(o, LAMBDA f : f.kind = "li")
\* the positions (0-based) of the items written so far that carry a marker
ActiveOf(o) ==
    {k \in 0..(Len(ItemsOf(o)) - 1) :
        ItemsOf(o)[k + 1].liActive \/ ItemsOf(o)[k + 1].aActive}

IsValidIndex(v) == v.t = "number" /\ v.d = 1 /\ v.n \in Positions
\* a number outside 0..7 (negative, too large, fractional, NaN) or undefined
IsOutsideIndex(v) ==
    \/ v.t = "undefined"
    \/ v.t = "number" /\ ~IsValidIndex(v)
IsNonNumericIndex(v) == v.t \in {"string", "boolean", "null"}

\* C1: when a call with an integer index in 0..7 has returned, exactly one of
\* the eight items is marked active, and it is the item at position index,
\* whose page file and title are those of the table row index.
C1_ExactlyOneActive ==
    (Returned /\ IsValidIndex(args.index)) =>
        /\ Len(ItemsOf(out)) = 8
        /\ ActiveOf(out) = {args.index.n}
        /\ LET it == ItemsOf(out)[args.index.n + 1] IN
            /\ it.text = MenuTable[args.index.n + 1].title
            /\ it.href = ExpectedPrefix(args.relativePath)
                            \o MenuTable[args.index.n + 1].page

C1_Witness ==
    /\ Returned
    /\ args.index = JSNum(3, 1)
    /\ args.relativePath = JSStr(<<"/", "d", "o", "c", "s", "/">>)
    /\ ItemsOf(out)[4].liActive
    /\ ItemsOf(out)[4].href = "/docs/students.html"

\* C2: when a call whose index is a number outside 0..7 (negative, 8 or more,
\* fractional, NaN) or undefined has returned, all eight items were written
\* and none is marked active; the call ran to its end.
C2_OutsideNoneActive ==
    (Returned /\ IsOutsideIndex(args.index)) =>
        /\ Len(ItemsOf(out)) = 8
        /\ ActiveOf(out) = {}
        /\ Len(out) = 10

C2_Witness ==
    /\ Returned
    /\ args.index = JSNum(99, 1)
    /\ Len(ItemsOf(out)) = 8
    /\ ActiveOf(out) = {}

ConvertedPositions(v) ==
    CASE v = JSStr(<<"3">>)           -> {3}
      [] v = JSStr(<<>>)              -> {0}
      [] v = JSStr(<<" ", "7", " ">>) -> {7}
      [] v = JSStr(<<"a", "b", "c">>) -> {}
      [] v = JSBool(FALSE)            -> {0}
      [] v = JSBool(TRUE)             -> {1}
      [] v = JSNull                   -> {}

C4_HrefAndLabel ==
    \A k \in 1..Len(ItemsOf(out)) :
        /\ k <= 8
        /\ ItemsOf(out)[k].href =
              ExpectedPrefix(args.relativePath) \o MenuTable[k].page
        /\ ItemsOf(out)[k].text = MenuTable[k].title

C4_Witness ==
    /\ Returned
    /\ args.relativePath = JSUndefined
    /\ args.index = JSNum(0, 1)
    /\ ItemsOf(out)[1].href = "index.html"
    /\ ItemsOf(out)[1].liActive
    /\ ItemsOf(out)[8].href = "awards.html"

\* C5: the k-th fragment written after the opening one is the item of table
\* row k, whatever the arguments: no row is skipped, repeated or reordered,
\* and a call that has returned has written each of the eight rows once.
C5_TableOrder ==
    /\ \A j \in 1..Len(out) :
          out[j].kind = "li" =>
              /\ j \in 2..9
              /\ out[j].text = MenuTable[j - 1].title
              /\ \E p \in KnownPrefixes : out[j].href = p \o MenuTable[j - 1].page
    /\ Returned =>
          /\ Len(ItemsOf(out)) = 8
          /\ \A k \in 1..8 : out[k + 1].kind = "li"

C5_Witness ==
    /\ Returned
    /\ args.index = JSStr(<<"a", "b", "c">>)
    /\ [k \in 1..8 |-> ItemsOf(out)[k].text] = TitlesLiteral

\* C6: the fragments of a call are the opening container once and first,
\* then only items, then the closing container once and last; a call that
\* has returned has written exactly 10 fragments.
C6_Wrapping ==
    /\ Len(out) <= 10
    /\ \A j \in 1..Len(out) :
          /\ (j = 1) <=> (out[j].kind = "ul")
          /\ (j = 10) <=> (out[j].kind = "/ul")
          /\ (j \in 2..9) <=> (out[j].kind = "li")
    /\ InCall /\ pc # "L7" => Len(out) \in 1..9
    /\ Returned => Len(out) = 10

C6_Witness ==
    /\ Returned
    /\ Len(out) = 10
    /\ out[1] = OpenList
    /\ out[10] = CloseList

\* C7: on every item written the marker of the list item and the marker of
\* its link agree; for an integer index the item at that position has both
\* and every other item has neither.
C7_MarkersAgree ==
    \A k \in 1..Len(ItemsOf(out)) :
        /\ ItemsOf(out)[k].liActive = ItemsOf(out)[k].aActive
        /\ (args.index.t = "number" /\ args.index.d = 1) =>
              (ItemsOf(out)[k].aActive <=> (args.index.n = k - 1))

C7_Witness ==
    /\ Returned
    /\ args.index = JSNum(5, 1)
    /\ ItemsOf(out)[6].liActive /\ ItemsOf(out)[6].aActive
    /\ ~ItemsOf(out)[5].liActive /\ ~ItemsOf(out)[5].aActive

\* C8: a call that has returned wrote the same fragments as any earlier call
\* with the same two arguments, whatever calls ran in between and before.
C8_SameArgsSameOutput ==
    (Returned /\ prev # <<>> /\ SameArgs(prev[1], args)) => out = prev[1].out

\* a remembered call menu(0), then a call with other arguments, then menu(0)
\* again, returned
C8_Witness ==
    /\ Returned
    /\ between
    /\ prev # <<>>
    /\ SameArgs(prev[1], args)
    /\ args.relativePath = JSUndefined
    /\ args.index = JSNum(0, 1)
    /\ out = prev[1].out

\* C9: from the moment a call has built them, the page files and the titles
\* are the eight of the table, paired by position; no step changes them.
C9_TablesFixed ==
    pc # "idle" =>
        /\ Len(pages) = 8
        /\ Len(titles) = 8
        /\ \A k \in 1..8 :
              pages[k] = MenuTable[k].page /\ titles[k] = MenuTable[k].title

C9_Witness ==
    /\ pc = "L9inc"
    /\ i = 7
    /\ args.relativePath = JSStr(<<"/", "d", "o", "c", "s", "/">>)
    /\ pages = PagesLiteral

\* C10: every call that has started returns; the loop counter starts at 0, is
\* left alone by the body, goes up by one per iteration, and the loop is left
\* after 8 iterations with the closing container written.
C10_Terminates ==
    /\ [](pc = "L7" =>
            <>(Returned /\ i = 8 /\ Len(out) = 10 /\ out[10].kind = "/ul"))
    /\ [][pc = "L9init" => i' = 0]_vars
    /\ [][pc = "L10" => i' = i]_vars
    /\ [][pc = "L9inc" => i' = i + 1]_vars
    /\ [](pc = "L10" => (i \in 0..7 /\ Len(ItemsOf(out)) = i))

C10_Witness ==
    /\ Returned
    /\ i = 8
    /\ Len(ItemsOf(out)) = 8
    /\ out[10] = CloseList

====
